---------------------------- MODULE Spec2Model ----------------------------
(***************************************************************************)
(* Model of src/solution/render-schedule.py: the on-call schedule          *)
(* renderer.  main() parses the window, calls generate_base_schedule (two  *)
(* while loops, modelled one iteration per step) and hands its result to   *)
(* apply_overrides (a pure function of the base entries and the override   *)
(* list, modelled as an operator and applied in one step).                 *)
(*                                                                         *)
(* Instants are integer epoch seconds.  The source steps periods with      *)
(* current_start.timestamp() + interval_days * 86400 on floats; for whole  *)
(* second instants that sum is exact, so it is modelled on integers.       *)
(***************************************************************************)
EXTENDS Integers, Sequences, FiniteSets, TLC

\* ------------------------------------------------------------ bounds
MaxDay == 5
MaxOvDay == 3
MaxOvAnchorDay == 1
MaxUsers == 2
MaxOverrides == 2
MaxIntervalDays == 3

\* ------------------------------------------------- program constants
SecondsPerDay == 86400

\* ------------------------------------------------------ input domains
Participants == {"X", "Y"}
OverrideUsers == {"X", "Z"}
Instants == {d * SecondsPerDay : d \in 0..MaxDay}
OvInstants == {d * SecondsPerDay : d \in 0..MaxOvDay}
OvAnchors == {d * SecondsPerDay : d \in 0..MaxOvAnchorDay}
IntervalChoices == (0 - 1)..MaxIntervalDays

\* The range of instants a datetime can hold: datetime.fromtimestamp raises
\* outside it.  Wide enough that a forward step from inside the window with a
\* positive interval never leaves it.
DatetimeMin == 0 - (MaxIntervalDays * SecondsPerDay)
DatetimeMax == (MaxDay + MaxIntervalDays) * SecondsPerDay

SeqsUpTo(S, n) == UNION {[1..k -> S] : k \in 0..n}

UserLists == SeqsUpTo(Participants, MaxUsers)

\* ------------------------------------------- timestamp text conversion
\* An ISO-8601 text is modelled by the instant it denotes and its UTC suffix.
Isoformat(t) == [instant |-> t, suffix |-> "+00:00"]

Replace(s, old, new) == IF s.suffix = old THEN [s EXCEPT !.suffix = new] ELSE s

FormatZ(t) == Replace(Isoformat(t), "+00:00", "Z")

\* fromisoformat accepts only the offset form here; the Z form is rewritten first.
parse_datetime(s) == Replace(s, "Z", "+00:00").instant

OverrideDicts ==
    {[user |-> u, start_at |-> FormatZ(s), end_at |-> FormatZ(e)] :
        u \in OverrideUsers, s \in OvInstants, e \in OvInstants}

OverrideLists == SeqsUpTo(OverrideDicts, MaxOverrides)

Max(a, b) == IF a >= b THEN a ELSE b
Min(a, b) == IF a <= b THEN a ELSE b

VARIABLES
    users,            \* schedule['users']
    handover_start,   \* parse_datetime(schedule['handover_start_at'])
    interval_days,    \* schedule['handover_interval_days']
    from_dt,
    until_dt,
    overrides,        \* the override list handed to apply_overrides
    pc,               \* "find", "gen", "apply", "done", "raised"
    error,            \* the exception that ended the run, "none" otherwise
    current_start,
    user_index,       \* 0-based, as in the source
    entries,          \* generate_base_schedule's list
    final_entries,    \* apply_overrides' return value
    find_iters,       \* completed passes of the first while loop (its break included)
    gen_iters         \* completed passes of the second while loop

vars == <<users, handover_start, interval_days, from_dt, until_dt, overrides,
          pc, error, current_start, user_index, entries, final_entries,
          find_iters, gen_iters>>

inputs == <<users, handover_start, interval_days, from_dt, until_dt>>

\* ------------------------------------------- generate_base_schedule
\* The pass counters only observe the loops; they saturate so that a loop that
\* never ends (interval_days = 0) stays a finite cycle of the model.  No run
\* with a positive interval makes IterCap passes of either loop.
IterCap == 2 * MaxDay + 2

Count(n) == IF n < IterCap THEN n + 1 ELSE n

NextStart(cur, days) == cur + days * SecondsPerDay

InRange(t) == DatetimeMin <= t /\ t <= DatetimeMax

BreakFindInclusive(next_start, f) == next_start >= f

BreakFind(next_start, f) == next_start > f

EntryStartUnclamped(cur, f) == cur

EntryStart(cur, f) == Max(cur, f)

EntryEnd(next_start, u) == Min(next_start, u)

AdvanceUser(idx, n) == (idx + 1) % n

Entry(user, s, e) == [user |-> user, start_at |-> FormatZ(s), end_at |-> FormatZ(e)]

Raise(e) ==
    /\ pc' = "raised"
    /\ error' = e
    /\ UNCHANGED <<current_start, user_index, entries, final_entries>>

\* One pass of `while current_start < from_dt` (lines 23-31).
FindStep ==
    /\ pc = "find"
    /\ current_start < from_dt
    /\ find_iters' = Count(find_iters)
    /\ UNCHANGED <<inputs, overrides, gen_iters>>
    /\ LET next_start == NextStart(current_start, interval_days) IN
       IF ~InRange(next_start) THEN Raise("OverflowError")
       ELSE IF BreakFind(next_start, from_dt)
       THEN /\ pc' = "gen"
            /\ UNCHANGED <<error, current_start, user_index, entries, final_entries>>
       ELSE IF Len(users) = 0
       THEN /\ pc' = "raised"
            /\ error' = "ZeroDivisionError"
            /\ current_start' = next_start
            /\ UNCHANGED <<user_index, entries, final_entries>>
       ELSE /\ current_start' = next_start
            /\ user_index' = AdvanceUser(user_index, Len(users))
            /\ UNCHANGED <<pc, error, entries, final_entries>>

\* The first loop's condition fails: fall through to the second loop.
FindExit ==
    /\ pc = "find"
    /\ ~(current_start < from_dt)
    /\ pc' = "gen"
    /\ UNCHANGED <<inputs, overrides, error, current_start, user_index, entries,
                   final_entries, find_iters, gen_iters>>

\* One pass of `while current_start < until_dt` (lines 34-51).
GenStep ==
    /\ pc = "gen"
    /\ current_start < until_dt
    /\ gen_iters' = Count(gen_iters)
    /\ UNCHANGED <<inputs, overrides, find_iters>>
    /\ LET next_start == NextStart(current_start, interval_days)
           entry_start == EntryStart(current_start, from_dt)
           entry_end == EntryEnd(next_start, until_dt)
       IN
       IF ~InRange(next_start) THEN Raise("OverflowError")
       ELSE IF entry_start < entry_end /\ Len(users) = 0 THEN Raise("IndexError")
       ELSE IF Len(users) = 0
       THEN /\ pc' = "raised"
            /\ error' = "ZeroDivisionError"
            /\ current_start' = next_start
            /\ UNCHANGED <<user_index, entries, final_entries>>
       ELSE /\ entries' = IF entry_start < entry_end
                          THEN Append(entries, Entry(users[user_index + 1], entry_start, entry_end))
                          ELSE entries
            /\ current_start' = next_start
            /\ user_index' = AdvanceUser(user_index, Len(users))
            /\ UNCHANGED <<pc, error, final_entries>>

\* The second loop's condition fails: return entries (line 53).
GenExit ==
    /\ pc = "gen"
    /\ ~(current_start < until_dt)
    /\ pc' = "apply"
    /\ UNCHANGED <<inputs, overrides, error, current_start, user_index, entries,
                   final_entries, find_iters, gen_iters>>


\* --------------------------------------------------- apply_overrides
\* Lines 59-79: both input lists converted to parsed segments.
Timeline(dicts) ==
    [i \in 1..Len(dicts) |->
        [user |-> dicts[i].user,
         start |-> parse_datetime(dicts[i].start_at),
         end |-> parse_datetime(dicts[i].end_at)]]

Piece(s, e, u) == [start |-> s, end |-> e, user |-> u]

NoOverlapClosed(override, start, end) == override.end < start \/ override.start > end

\* Line 89: the half-open intersection test.
NoOverlap(override, start, end) == override.end <= start \/ override.start >= end

SplitSegmentNoTail(seg, override) ==
    LET start == seg.start
        end == seg.end
        user == seg.user
    IN
    IF NoOverlap(override, start, end)
    THEN <<Piece(start, end, user)>>
    ELSE IF override.start <= start /\ override.end >= end
    THEN <<Piece(start, end, override.user)>>
    ELSE IF override.start <= start /\ override.end < end
    THEN <<Piece(start, override.end, override.user), Piece(override.end, end, user)>>
    ELSE IF override.start > start /\ override.end >= end
    THEN <<Piece(start, override.start, user), Piece(override.start, end, override.user)>>
    ELSE <<Piece(start, override.start, user),
           Piece(override.start, override.end, override.user)>>

\* Lines 88-106: what one override makes of one working segment.
SplitSegment(seg, override) ==
    LET start == seg.start
        end == seg.end
        user == seg.user
    IN
    IF NoOverlap(override, start, end)
    THEN <<Piece(start, end, user)>>
    ELSE IF override.start <= start /\ override.end >= end
    THEN <<Piece(start, end, override.user)>>
    ELSE IF override.start <= start /\ override.end < end
    THEN <<Piece(start, override.end, override.user), Piece(override.end, end, user)>>
    ELSE IF override.start > start /\ override.end >= end
    THEN <<Piece(start, override.start, user), Piece(override.start, end, override.user)>>
    ELSE <<Piece(start, override.start, user),
           Piece(override.start, override.end, override.user),
           Piece(override.end, end, user)>>

\* Lines 86-108: one override applied to the whole working list.
RECURSIVE ApplyOne(_, _)
ApplyOne(segments, override) ==
    IF segments = <<>> THEN <<>>
    ELSE SplitSegment(Head(segments), override) \o ApplyOne(Tail(segments), override)

RECURSIVE ApplyAllReversed(_, _, _)
ApplyAllReversed(segments, override_segments, i) ==
    IF i > Len(override_segments) THEN segments
    ELSE ApplyAllReversed(
            ApplyOne(segments, override_segments[Len(override_segments) + 1 - i]),
            override_segments, i + 1)

\* Lines 85-108: every override in input order, from index i on.
RECURSIVE ApplyAll(_, _, _)
ApplyAll(segments, override_segments, i) ==
    IF i > Len(override_segments) THEN segments
    ELSE ApplyAll(ApplyOne(segments, override_segments[i]), override_segments, i + 1)

\* Lines 81-110: the pieces of every base segment, concatenated.
RECURSIVE SplitBases(_, _)
SplitBases(base_segments, override_segments) ==
    IF base_segments = <<>> THEN <<>>
    ELSE ApplyAll(<<Head(base_segments)>>, override_segments, 1)
            \o SplitBases(Tail(base_segments), override_segments)

\* Line 113: list.sort(key=start) is stable: x goes after every element whose
\* start is not greater.
RECURSIVE InsertByStart(_, _)
InsertByStart(sorted, x) ==
    IF sorted = <<>> THEN <<x>>
    ELSE IF Head(sorted).start <= x.start
    THEN <<Head(sorted)>> \o InsertByStart(Tail(sorted), x)
    ELSE <<x>> \o sorted

RECURSIVE SortByStart(_)
SortByStart(result) ==
    IF result = <<>> THEN <<>>
    ELSE InsertByStart(SortByStart(SubSeq(result, 1, Len(result) - 1)),
                       result[Len(result)])

MergeableSameStart(last, seg) == last.user = seg.user /\ last.start = seg.start

\* Line 117: the merge test.
Mergeable(last, seg) == last.user = seg.user /\ last.end = seg.start

\* Lines 115-120.
RECURSIVE Merge(_, _)
Merge(merged, result) ==
    IF result = <<>> THEN merged
    ELSE LET seg == Head(result) IN
         IF merged # <<>> /\ Mergeable(merged[Len(merged)], seg)
         THEN Merge([merged EXCEPT ![Len(merged)] =
                        Piece(merged[Len(merged)].start, seg.end, seg.user)],
                    Tail(result))
         ELSE Merge(Append(merged, seg), Tail(result))

\* Lines 123-130.
Output(merged) ==
    [i \in 1..Len(merged) |-> Entry(merged[i].user, merged[i].start, merged[i].end)]

apply_overrides(base_entries, override_dicts) ==
    Output(Merge(<<>>, SortByStart(SplitBases(Timeline(base_entries),
                                              Timeline(override_dicts)))))

\* ------------------------------------------------------------- main
\* Line 152.
ApplyOverridesCall ==
    /\ pc = "apply"
    /\ final_entries' = apply_overrides(entries, overrides)
    /\ pc' = "done"
    /\ UNCHANGED <<inputs, overrides, error, current_start, user_index, entries,
                   find_iters, gen_iters>>

\* Lines 14-20 have run: the state on entry to the first loop.
Start(ovs) ==
    /\ overrides \in ovs
    /\ pc = "find"
    /\ error = "none"
    /\ current_start = handover_start
    /\ user_index = 0
    /\ entries = <<>>
    /\ final_entries = <<>>
    /\ find_iters = 0
    /\ gen_iters = 0

\* Any rotation and any window, valid or not; the overrides file is empty.
Init ==
    /\ users \in UserLists
    /\ handover_start \in Instants
    /\ interval_days \in IntervalChoices
    /\ from_dt \in Instants
    /\ until_dt \in Instants
    /\ Start({<<>>})

Next == FindStep \/ FindExit \/ GenStep \/ GenExit \/ ApplyOverridesCall

Spec == Init /\ [][Next]_vars

\* Valid rotations and windows with every override list, degenerate and
\* out-of-window overrides included; the anchor is on or just after day 0.
InitOv ==
    /\ users \in UserLists \ {<<>>}
    /\ handover_start \in OvAnchors
    /\ interval_days \in 1..MaxIntervalDays
    /\ from_dt \in OvInstants
    /\ until_dt \in OvInstants
    /\ from_dt < until_dt
    /\ Start(OverrideLists)

SpecOv == InitOv /\ [][Next]_vars

\* ------------------------------------------------ shared vocabulary
ValidRotation == Len(users) >= 1 /\ interval_days >= 1

ValidWindow == from_dt < until_dt

Returned == pc \in {"apply", "done"}

period_length == interval_days * SecondsPerDay

\* segs is sorted by start, pairwise disjoint, has no empty segment, and its
\* union is exactly [a, b).
Tiles(segs, a, b) ==
    /\ Len(segs) >= 1
    /\ segs[1].start = a
    /\ segs[Len(segs)].end = b
    /\ \A i \in 1..Len(segs) : segs[i].start < segs[i].end
    /\ \A i \in 1..(Len(segs) - 1) : segs[i].end = segs[i + 1].start
    /\ \A i, j \in 1..Len(segs) :
          i < j => segs[i].start < segs[j].start /\ segs[i].end <= segs[j].start

Base == Timeline(entries)

Final == Timeline(final_entries)

Ovs == Timeline(overrides)

WellFormedOverrides == \A i \in 1..Len(Ovs) : Ovs[i].start < Ovs[i].end

Contains(seg, t) == seg.start <= t /\ t < seg.end

\* ---------------------------------------------------------------- C1
\* C1 as stated: for a valid rotation and a window with from < until, the
\* list generate_base_schedule returns is sorted, disjoint, free of empty
\* segments and covers exactly [from, until), also when from lies before
\* anchor_start.
C1_CoversWindow ==
    (ValidRotation /\ ValidWindow /\ Returned) => Tiles(Base, from_dt, until_dt)

\* C1 amended: the returned list tiles [max(from, anchor_start), until); it
\* is empty when anchor_start >= until.
C1_CoversWindowFromAnchor ==
    (ValidRotation /\ ValidWindow /\ Returned) =>
        IF handover_start >= until_dt
        THEN entries = <<>>
        ELSE Tiles(Base, Max(from_dt, handover_start), until_dt)

C1_Witness ==
    /\ pc = "apply"
    /\ ValidRotation
    /\ from_dt < handover_start
    /\ handover_start < until_dt
    /\ Len(entries) >= 2

\* ---------------------------------------------------------------- C9
PeriodOf(t) == (t - handover_start) \div period_length

FirstPeriod == Max(0, PeriodOf(from_dt))

\* C9: every emitted segment lies inside one period k >= 0 counted from the
\* anchor and carries participants[k mod n]; consecutive segments are in
\* consecutive periods; and the first loop leaves the second one at period
\* max(0, floor((from - anchor_start) / period_length)).
C9_RoundRobin ==
    ValidRotation =>
        /\ \A i \in 1..Len(Base) :
              LET k == PeriodOf(Base[i].start) IN
              /\ k >= 0
              /\ handover_start + k * period_length <= Base[i].start
              /\ Base[i].end <= handover_start + (k + 1) * period_length
              /\ Base[i].user = users[(k % Len(users)) + 1]
        /\ \A i \in 1..(Len(Base) - 1) :
              PeriodOf(Base[i + 1].start) = PeriodOf(Base[i].start) + 1
        /\ pc \in {"gen", "apply", "done"} =>
              /\ current_start = handover_start + (FirstPeriod + gen_iters) * period_length
              /\ user_index = (FirstPeriod + gen_iters) % Len(users)

C9_Witness ==
    /\ pc = "apply"
    /\ ValidRotation
    /\ Len(users) = 2
    /\ users[1] # users[2]
    /\ handover_start < from_dt
    /\ (from_dt - handover_start) % period_length = 0
    /\ Len(entries) >= 2

\* --------------------------------------------------------------- C10
CeilDiv(a, b) == (a + b - 1) \div b

\* C10: for a valid rotation and window the number of loop passes is bounded
\* by the window alone.  The bound allows ceil((until - from) / period_length)
\* + 1 passes of the second loop (a window may straddle one more period than
\* its length holds) and one pass for the first loop's break, so only passes
\* that grow with from - anchor_start exceed it.
C10_PassesBoundedByWindow ==
    (ValidRotation /\ ValidWindow) =>
        find_iters + gen_iters <= CeilDiv(until_dt - from_dt, period_length) + 2

\* ---------------------------------------------------------------- C6
\* C6: with an empty participant list or interval_days <= 0,
\* generate_base_schedule never returns a list (stated for the valid windows,
\* so that the rotation alone is at fault).
C6_InvalidRotationRejected == (~ValidRotation /\ ValidWindow) => ~Returned

\* ---------------------------------------------------------------- C7
\* C7: for a window with from >= until the pipeline never hands back a
\* segment list (stated for the valid rotations, so that the window alone is
\* at fault).
C7_InvalidWindowRejected == (ValidRotation /\ from_dt >= until_dt) => pc # "done"

\* ---------------------------------------------------------------- C2
\* C2: when the base segments tile [from, until) and every override has
\* start < end, the returned sequence is sorted, disjoint, gap-free, has no
\* empty segment, starts at from, ends at until and stays inside the window.
C2_OutputTilesWindow ==
    (pc = "done" /\ Tiles(Base, from_dt, until_dt) /\ WellFormedOverrides) =>
        /\ Tiles(Final, from_dt, until_dt)
        /\ \A i \in 1..Len(Final) : from_dt <= Final[i].start /\ Final[i].end <= until_dt

C2_Witness ==
    /\ pc = "done"
    /\ Tiles(Base, from_dt, until_dt)
    /\ WellFormedOverrides
    /\ Len(Ovs) = 2
    /\ Ovs[1].start < from_dt
    /\ from_dt < Ovs[1].end
    /\ Ovs[2].start < Ovs[1].end
    /\ Ovs[1].start < Ovs[2].end
    /\ Ovs[1].user # Ovs[2].user
    /\ Len(Final) >= 2

\* ---------------------------------------------------------------- C3
Hits(t) == {i \in 1..Len(Ovs) : Contains(Ovs[i], t)}

Last(S) == CHOOSE i \in S : \A j \in S : j <= i

UsersAt(segs, t) == {segs[i].user : i \in {j \in 1..Len(segs) : Contains(segs[j], t)}}

\* C3: at every instant the base covers, the output names the participant of
\* the last override in input order whose [start, end) contains the instant,
\* and the base participant when none does.  Every boundary of the model is a
\* whole day, so the day starts decide every instant.
C3_LastOverrideWins ==
    (pc = "done" /\ WellFormedOverrides) =>
        \A t \in OvInstants :
            UsersAt(Base, t) # {} =>
                UsersAt(Final, t) =
                    IF Hits(t) = {} THEN UsersAt(Base, t) ELSE {Ovs[Last(Hits(t))].user}

\* The list [A, B] with B strictly inside A and both inside one base segment.
C3_Witness ==
    /\ pc = "done"
    /\ Len(Base) = 1
    /\ Len(Ovs) = 2
    /\ Base[1].start <= Ovs[1].start
    /\ Ovs[1].start < Ovs[2].start
    /\ Ovs[2].start < Ovs[2].end
    /\ Ovs[2].end < Ovs[1].end
    /\ Ovs[1].end <= Base[1].end
    /\ Ovs[1].user # Ovs[2].user
    /\ Final = <<Piece(Ovs[1].start, Ovs[2].start, Ovs[1].user),
                 Piece(Ovs[2].start, Ovs[2].end, Ovs[2].user),
                 Piece(Ovs[2].end, Ovs[1].end, Ovs[1].user)>>

\* ---------------------------------------------------------------- C4
\* C4: with overrides that have start < end, no two consecutive entries of
\* the returned sequence name the same participant.
C4_NoAdjacentDuplicates ==
    (pc = "done" /\ WellFormedOverrides) =>
        \A i \in 1..(Len(Final) - 1) : Final[i].user # Final[i + 1].user

\* An override that coincides with the second base segment and names the
\* first one's participant: the two entries become one.
C4_Witness ==
    /\ pc = "done"
    /\ Len(Base) = 2
    /\ Base[1].user # Base[2].user
    /\ Len(Ovs) = 1
    /\ Ovs[1] = [Base[2] EXCEPT !.user = Base[1].user]
    /\ Final = <<Piece(Base[1].start, Base[2].end, Base[1].user)>>

\* ---------------------------------------------------------------- C5
Degenerate(o) == parse_datetime(o.start_at) >= parse_datetime(o.end_at)

\* C5: overrides with start >= end change nothing: the result is the one the
\* list without them gives, and no returned segment has start >= end.
C5_DegenerateOverrideIsNoOp ==
    pc = "done" =>
        /\ final_entries =
              apply_overrides(entries, SelectSeq(overrides, LAMBDA o : ~Degenerate(o)))
        /\ \A i \in 1..Len(Final) : Final[i].start < Final[i].end

\* ---------------------------------------------------------------- C8
Outside(o) ==
    \/ parse_datetime(o.end_at) <= from_dt
    \/ parse_datetime(o.start_at) >= until_dt

\* C8: overrides that lie outside the window (touching it included) change
\* nothing, wherever they stand in the list: the result is the one the list
\* without them gives.
C8_OutsideOverrideIsNoOp ==
    pc = "done" =>
        final_entries =
            apply_overrides(entries, SelectSeq(overrides, LAMBDA o : ~Outside(o)))

C8_Witness ==
    /\ pc = "done"
    /\ Len(Ovs) = 2
    /\ Ovs[1].start < Ovs[1].end
    /\ Ovs[1].end = from_dt
    /\ ~Outside(overrides[2])
    /\ Ovs[2].start < Ovs[2].end
    /\ final_entries # entries
    /\ Base[1].user # Ovs[1].user

=============================================================================
